---- MODULE Spec2Model ----
(***************************************************************************)
(* Model of the Greenhouse Harvest MCP server's authenticated request      *)
(* layer: the OAuth2 token cache of src/src/auth.ts, the request engine of *)
(* src/src/client.ts and the routing helpers of src/src/index.ts.          *)
(*                                                                         *)
(* JavaScript values are tagged records, strings are TLA+ strings handled  *)
(* character by character, and every asynchronous function is cut at the   *)
(* awaits where another callback can observe or change module state.       *)
(***************************************************************************)
EXTENDS Integers, Sequences, FiniteSets, TLC

(***************************************************************************)
(* Bounds of the model.                                                    *)
(***************************************************************************)
\* number of call slots that may be in flight at the same time
NumCalls == 2
\* the clock runs over 0, 60s, ..., MaxClock * 60s
MaxClock == 1

\* filter bags of the URL specification have MaxKeys entries
MaxKeys == 3
\* link headers of the link specification list up to MaxLinks relations
MaxLinks == 2

Calls == 1 .. NumCalls

(***************************************************************************)
(* JavaScript values.                                                      *)
(***************************************************************************)
Undefined == [t |-> "undefined"]
Null == [t |-> "null"]
NaN == [t |-> "nan"]
Str(s) == [t |-> "string", s |-> s]
Num(n) == [t |-> "number", n |-> n]
Bool(b) == [t |-> "boolean", b |-> b]

\* ToBoolean, as applied by `if (x)` and `x && y`
Truthy(v) ==
  CASE v.t = "string" -> v.s # ""
    [] v.t = "number" -> v.n # 0
    [] v.t = "boolean" -> v.b
    [] v.t = "object" -> TRUE
    [] OTHER -> FALSE

\* String(value) and template-literal interpolation
String(v) ==
  CASE v.t = "string" -> v.s
    [] v.t = "number" -> ToString(v.n)
    [] v.t = "boolean" -> (IF v.b THEN "true" ELSE "false")
    [] v.t = "nan" -> "NaN"
    [] v.t = "null" -> "null"
    [] OTHER -> "undefined"

\* a < b on numbers: false as soon as one side is NaN
NumLt(a, b) == a.t = "number" /\ b.t = "number" /\ a.n < b.n

\* a - k on numbers: NaN stays NaN
NumMinus(a, k) == IF a.t = "number" THEN Num(a.n - k) ELSE NaN

(***************************************************************************)
(* Strings.                                                                *)
(***************************************************************************)
CharAt(s, i) == SubSeq(s, i, i)

\* s.startsWith(p, i): p occurs in s at position i
OccursAt(s, p, i) == i >= 1 /\ i + Len(p) - 1 <= Len(s) /\ SubSeq(s, i, i + Len(p) - 1) = p

\* s.includes(p)
Contains(s, p) == \E i \in 1 .. (Len(s) + 1) : OccursAt(s, p, i)

\* s.indexOf(ch, from), 0 when ch does not occur
IndexFrom(s, ch, from) ==
  LET hits == {i \in from .. Len(s) : CharAt(s, i) = ch}
  IN IF hits = {} THEN 0 ELSE CHOOSE i \in hits : \A j \in hits : i <= j

Digits == <<"0", "1", "2", "3", "4", "5", "6", "7", "8", "9">>
IsDigit(ch) == \E d \in 1 .. 10 : Digits[d] = ch
DigitVal(ch) == (CHOOSE d \in 1 .. 10 : Digits[d] = ch) - 1

\* n written with exactly w decimal digits
RECURSIVE Pad(_, _)
Pad(n, w) == IF w = 0 THEN "" ELSE Pad(n \div 10, w - 1) \o Digits[(n % 10) + 1]

\* the number written by a string of decimal digits
RECURSIVE ParseDigits(_)
ParseDigits(s) ==
  IF Len(s) = 0 THEN 0
  ELSE 10 * ParseDigits(SubSeq(s, 1, Len(s) - 1)) + DigitVal(CharAt(s, Len(s)))

AllDigits(s) == \A i \in 1 .. Len(s) : IsDigit(CharAt(s, i))

(***************************************************************************)
(* Time.  Date.now() is the variable `now`; the timestamps the token       *)
(* endpoint sends are ISO-8601 strings of the first hour of the epoch.     *)
(***************************************************************************)
\* the validity buffer of the cache test, in milliseconds
TokenBufferMs == 60000

ClockTimes == {k * TokenBufferMs : k \in 0 .. MaxClock}

\* expiry instants the token endpoint may announce: on a buffer boundary and 1 ms after it
ExpiryTimes == {k * TokenBufferMs + d : k \in 1 .. MaxClock, d \in {0, 1}}

\* Date.prototype.toISOString for an instant of the first hour of the epoch
IsoString(ms) ==
  "1970-01-01T00:" \o Pad(ms \div 60000, 2) \o ":" \o Pad((ms \div 1000) % 60, 2)
    \o "." \o Pad(ms % 1000, 3) \o "Z"

\* Date.parse on the format above, NaN on anything else
DateParse(s) ==
  IF /\ Len(s) = 24
     /\ SubSeq(s, 1, 14) = "1970-01-01T00:"
     /\ AllDigits(SubSeq(s, 15, 16)) /\ CharAt(s, 17) = ":"
     /\ AllDigits(SubSeq(s, 18, 19)) /\ CharAt(s, 20) = "."
     /\ AllDigits(SubSeq(s, 21, 23)) /\ CharAt(s, 24) = "Z"
     /\ ParseDigits(SubSeq(s, 15, 16)) < 60
     /\ ParseDigits(SubSeq(s, 18, 19)) < 60
  THEN Num(ParseDigits(SubSeq(s, 15, 16)) * 60000 + ParseDigits(SubSeq(s, 18, 19)) * 1000
             + ParseDigits(SubSeq(s, 21, 23)))
  ELSE NaN


\* the instant in seconds instead of milliseconds
DateGetTimeSeconds(v) ==
  CASE v.t = "string" -> (IF DateParse(v.s) = NaN THEN NaN ELSE Num(DateParse(v.s).n \div 1000))
    [] v.t = "number" -> Num(v.n \div 1000)
    [] v.t = "null" -> Num(0)
    [] OTHER -> NaN

\* new Date(v).getTime()
DateGetTime(v) ==
  CASE v.t = "string" -> DateParse(v.s)
    [] v.t = "number" -> Num(v.n)
    [] v.t = "null" -> Num(0)
    [] OTHER -> NaN

(***************************************************************************)
(* HTTP responses.  A body is its raw text together with what JSON.parse   *)
(* makes of it: a decoded value, or a syntax error.                        *)
(***************************************************************************)
JsonSyntaxError == [t |-> "syntaxerror"]
TokenObject(tok, exp) == [t |-> "object", access_token |-> tok, expires_at |-> exp]

\* Response.ok widened to every status below 400
ResOkBelow400(status) == status >= 200 /\ status <= 399

\* Response.ok
ResOk(status) == status >= 200 /\ status <= 299

\* fetch() rejected: no response at all
FetchRejected == [kind |-> "reject"]
HttpResponse(status, statusText, text, json, link) ==
  [kind |-> "http", status |-> status, statusText |-> statusText, text |-> text,
   json |-> json, link |-> link]

\* a well-formed token body names its token after its expiry instant
GoodToken(ms) == TokenObject(Str("tok-" \o ToString(ms)), Str(IsoString(ms)))

\* bodies with a 2xx status that are JSON objects but no token response
MalformedTokenObjects ==
  {TokenObject(Undefined, Undefined),
   TokenObject(Undefined, Str(IsoString(MaxClock * TokenBufferMs + 1))),
   TokenObject(Num(42), Str(IsoString(MaxClock * TokenBufferMs + 1))),
   TokenObject(Str(""), Str(IsoString(MaxClock * TokenBufferMs + 1))),
   TokenObject(Str("tok-x"), Undefined),
   TokenObject(Str("tok-x"), Str("soon"))}

TokenResponses ==
  {FetchRejected,
   HttpResponse(401, "Unauthorized", "{\"error\":\"invalid_client\"}",
                [t |-> "object", error |-> Str("invalid_client")], Null),
   HttpResponse(500, "Internal Server Error", "oops", JsonSyntaxError, Null),
   HttpResponse(200, "OK", "<html>", JsonSyntaxError, Null)}
    \cup {HttpResponse(200, "OK", "{...}", obj, Null) :
            obj \in {GoodToken(ms) : ms \in ExpiryTimes} \cup MalformedTokenObjects}

(***************************************************************************)
(* URLs.  A URL object is its part before the query and its list of query  *)
(* pairs; hrefs and query strings are real strings, form-urlencoded the    *)
(* way URLSearchParams does it.                                            *)
(***************************************************************************)
BASE_URL == "https://harvest.greenhouse.io/v3"

\* the characters of the model's alphabet that URLSearchParams escapes
Escapes ==
  <<<<" ", "+">>, <<"|", "%7C">>, <<":", "%3A">>, <<",", "%2C">>, <<"=", "%3D">>,
    <<"&", "%26">>, <<"%", "%25">>, <<"+", "%2B">>, <<"?", "%3F">>, <<"/", "%2F">>>>

EncodeChar(ch) ==
  IF \E e \in 1 .. Len(Escapes) : Escapes[e][1] = ch
  THEN Escapes[CHOOSE e \in 1 .. Len(Escapes) : Escapes[e][1] = ch][2]
  ELSE ch

\* application/x-www-form-urlencoded serialisation of one name or value
\* (of s from its position i on)
RECURSIVE FormEncodeFrom(_, _)
FormEncodeFrom(s, i) ==
  IF i > Len(s) THEN "" ELSE EncodeChar(CharAt(s, i)) \o FormEncodeFrom(s, i + 1)

FormEncode(s) == FormEncodeFrom(s, 1)

\* the inverse: "+" is a space, %XX is the escaped character
\* (of s from its position i on)
RECURSIVE FormDecodeFrom(_, _)
FormDecodeFrom(s, i) ==
  IF i > Len(s) THEN ""
  ELSE IF CharAt(s, i) = "+" THEN " " \o FormDecodeFrom(s, i + 1)
  ELSE IF /\ CharAt(s, i) = "%"
          /\ i + 2 <= Len(s)
          /\ \E e \in 2 .. Len(Escapes) : Escapes[e][2] = SubSeq(s, i, i + 2)
  THEN Escapes[CHOOSE e \in 2 .. Len(Escapes) : Escapes[e][2] = SubSeq(s, i, i + 2)][1]
         \o FormDecodeFrom(s, i + 3)
  ELSE CharAt(s, i) \o FormDecodeFrom(s, i + 1)

FormDecode(s) == FormDecodeFrom(s, 1)

\* s.split(ch)
RECURSIVE Split(_, _)
Split(s, ch) ==
  LET i == IndexFrom(s, ch, 1)
  IN IF i = 0 THEN <<s>> ELSE <<SubSeq(s, 1, i - 1)>> \o Split(SubSeq(s, i + 1, Len(s)), ch)

\* one "name=value" piece of a query string, decoded
ParsePair(piece) ==
  LET i == IndexFrom(piece, "=", 1)
  IN IF i = 0 THEN <<FormDecode(piece), "">>
     ELSE <<FormDecode(SubSeq(piece, 1, i - 1)), FormDecode(SubSeq(piece, i + 1, Len(piece)))>>

\* new URLSearchParams(query): the list of decoded pairs, empty pieces skipped
ParseQuery(query) ==
  LET pieces == Split(query, "&")
      kept == SelectSeq(pieces, LAMBDA x : x # "")
  IN [i \in 1 .. Len(kept) |-> ParsePair(kept[i])]

\* URLSearchParams.toString()
RECURSIVE SerializeQuery(_)
SerializeQuery(pairs) ==
  IF Len(pairs) = 0 THEN ""
  ELSE FormEncode(pairs[1][1]) \o "=" \o FormEncode(pairs[1][2])
         \o (IF Len(pairs) = 1 THEN "" ELSE "&" \o SerializeQuery(Tail(pairs)))

\* does new URL(href) accept the string: it needs a scheme
ValidUrl(href) == OccursAt(href, "https://", 1) \/ OccursAt(href, "http://", 1)

\* new URL(href)
NewURL(href) ==
  LET q == IndexFrom(href, "?", 1)
  IN IF q = 0 THEN [base |-> href, query |-> <<>>]
     ELSE [base |-> SubSeq(href, 1, q - 1), query |-> ParseQuery(SubSeq(href, q + 1, Len(href)))]

\* url.searchParams.set(key, value): replace the first pair named key, drop the others
SearchParamsSet(url, key, value) ==
  LET named == {i \in 1 .. Len(url.query) : url.query[i][1] = key}
      first == CHOOSE i \in named : \A j \in named : i <= j
      repl == [i \in 1 .. Len(url.query) |->
                 IF i = first THEN <<key, value>> ELSE url.query[i]]
      keepIdx(i) == i = first \/ i \notin named
  IN IF named = {} THEN [url EXCEPT !.query = Append(@, <<key, value>>)]
     ELSE [url EXCEPT !.query =
             LET RECURSIVE Keep(_)
                 Keep(i) == IF i > Len(repl) THEN <<>>
                            ELSE (IF keepIdx(i) THEN <<repl[i]>> ELSE <<>>) \o Keep(i + 1)
             IN Keep(1)]

\* url.searchParams.get(key): the first value, or null
SearchParamsGet(url, key) ==
  LET named == {i \in 1 .. Len(url.query) : url.query[i][1] = key}
  IN IF named = {} THEN Null
     ELSE Str(url.query[CHOOSE i \in named : \A j \in named : i <= j][2])

\* url.toString()
UrlToString(url) ==
  IF Len(url.query) = 0 THEN url.base ELSE url.base \o "?" \o SerializeQuery(url.query)

\* the query string of an href, as the receiving server sees it
QueryOf(href) ==
  LET q == IndexFrom(href, "?", 1)
  IN IF q = 0 THEN "" ELSE SubSeq(href, q + 1, Len(href))

(***************************************************************************)
(* client.ts: URL construction and link-header parsing.                    *)
(***************************************************************************)
\* a parameter bag: an object whose entries are <<key, value>> in insertion order
Bag(entries) == [t |-> "object", entries |-> entries]

\* the loop of buildUrl with a truthiness test
SendsValueTruthy(value) == Truthy(value)

\* does the loop of buildUrl send this value
SendsValue(value) == value # Undefined /\ value # Str("")

RECURSIVE SetEntries(_, _)
SetEntries(url, entries) ==
  IF Len(entries) = 0 THEN url
  ELSE SetEntries(IF SendsValue(entries[1][2])
                  THEN SearchParamsSet(url, entries[1][1], String(entries[1][2]))
                  ELSE url,
                  Tail(entries))

buildUrl(path, params) ==
  LET url == NewURL(BASE_URL \o path)
  IN UrlToString(IF Truthy(params) THEN SetEntries(url, params.entries) ELSE url)

\* the characters \s matches, among those of the model
IsSpace(ch) == ch = " "

RECURSIVE SkipSpaces(_, _)
SkipSpaces(s, i) == IF i <= Len(s) /\ IsSpace(CharAt(s, i)) THEN SkipSpaces(s, i + 1) ELSE i

\* the relation the pattern of parseLinkHeader asks for
RelWanted == "rel=\"next\""

\* the pattern without its relation: /<([^>]+)>;/
LinkMatchAtAnyRel(s, i) ==
  LET j == IndexFrom(s, ">", i + 1)
  IN /\ CharAt(s, i) = "<"
     /\ j > i + 1
     /\ j + 1 <= Len(s) /\ CharAt(s, j + 1) = ";"

\* does /<([^>]+)>;\s*rel="next"/ match with its "<" at position i
LinkMatchAt(s, i) ==
  LET j == IndexFrom(s, ">", i + 1)
  IN /\ CharAt(s, i) = "<"
     /\ j > i + 1
     /\ j + 1 <= Len(s) /\ CharAt(s, j + 1) = ";"
     /\ OccursAt(s, RelWanted, SkipSpaces(s, j + 2))

parseLinkHeader(header) ==
  IF ~Truthy(header) THEN Null
  ELSE LET s == header.s
           ms == {i \in 1 .. Len(s) : LinkMatchAt(s, i)}
           i == CHOOSE k \in ms : \A l \in ms : k <= l
       IN IF ms = {} THEN Null ELSE Str(SubSeq(s, i + 1, IndexFrom(s, ">", i + 1) - 1))

\* lines 76-85 of apiGet, 154-162 of apiGetWithCursor: does new URL(nextUrl) throw
NextUrlThrows(link) ==
  LET nextUrl == parseLinkHeader(link)
  IN Truthy(nextUrl) /\ ~ValidUrl(nextUrl.s)

\* the nextCursor of a successful GET
NextCursorOf(link) ==
  LET nextUrl == parseLinkHeader(link)
  IN IF Truthy(nextUrl) THEN SearchParamsGet(NewURL(nextUrl.s), "cursor") ELSE Null

(***************************************************************************)
(* State.                                                                  *)
(***************************************************************************)
VARIABLES
  config,          \* client.ts: the credential pair, null before configure
  cachedToken,     \* auth.ts: the cached access token, null at start
  tokenExpiresAt,  \* auth.ts: its expiry in epoch milliseconds
  now,             \* Date.now()
  calls            \* the calls in flight: position, arguments, locals, messages, outcome

vars == <<config, cachedToken, tokenExpiresAt, now, calls>>

NoRequest == [method |-> "none"]
NoResponse == [kind |-> "none"]
NoOutcome == [kind |-> "none"]
Envelope(data, nextCursor) == [kind |-> "envelope", data |-> data, nextCursor |-> nextCursor]
Thrown(name, message) == [kind |-> "error", name |-> name, message |-> message]

NoToolArgs == [cursor |-> Undefined, rest |-> Undefined]
NoResult == [kind |-> "none"]

\* pc: idle, awaitToken, tokenReady, haveToken, awaitRes, resReady, done
\* req is the request in flight, inbox the response being handled (a finished call
\* keeps the last one it received);
\* nTok, nRes and nJson count the call's token fetches, resource fetches and res.json() calls;
\* out is what the exported function returned or threw, result what the tool handler
\* that called it returned
IdleCall ==
  [pc |-> "idle", tool |-> "none", targs |-> NoToolArgs, op |-> "none", path |-> "",
   params |-> Undefined, cursor |-> Undefined, perPage |-> Undefined, body |-> Undefined,
   token |-> Undefined, nTok |-> 0, nRes |-> 0, nJson |-> 0,
   req |-> NoRequest, inbox |-> NoResponse, out |-> NoOutcome, result |-> NoResult]

Init ==
  /\ config = Null
  /\ cachedToken = Null
  /\ tokenExpiresAt = Num(0)
  /\ now = 0
  /\ calls = [c \in Calls |-> IdleCall]

(***************************************************************************)
(* Environment: the clock, configure(), and the two servers.               *)
(***************************************************************************)
Tick ==
  /\ \E t \in ClockTimes : t > now /\ now' = t
  /\ UNCHANGED <<config, cachedToken, tokenExpiresAt, calls>>

configure(clientId, clientSecret) ==
  /\ config = Null
  /\ config' = [t |-> "object", clientId |-> clientId, clientSecret |-> clientSecret]
  /\ UNCHANGED <<cachedToken, tokenExpiresAt, now, calls>>

\* the settled fetch as the awaiting code sees it: Response.url is the URL requested
Settled(res, req) ==
  IF res.kind = "http"
  THEN [kind |-> "http", url |-> req.url, status |-> res.status,
        statusText |-> res.statusText, text |-> res.text, json |-> res.json,
        link |-> res.link]
  ELSE res

\* the fetch of auth.ts line 29 settles
tokenFetchSettles(c, res) ==
  /\ calls[c].pc = "awaitToken"
  /\ calls' = [calls EXCEPT ![c].pc = "tokenReady", ![c].req = NoRequest,
                 ![c].inbox = Settled(res, calls[c].req)]
  /\ UNCHANGED <<config, cachedToken, tokenExpiresAt, now>>

\* the fetch of client.ts line 63, 101 or 141 settles
resourceFetchSettles(c, res) ==
  /\ calls[c].pc = "awaitRes"
  /\ calls' = [calls EXCEPT ![c].pc = "resReady", ![c].req = NoRequest,
                 ![c].inbox = Settled(res, calls[c].req)]
  /\ UNCHANGED <<config, cachedToken, tokenExpiresAt, now>>

(***************************************************************************)
(* auth.ts: getAccessToken.                                                *)
(***************************************************************************)
TOKEN_URL == "https://auth.greenhouse.io/token"

\* a < b or a = b on numbers
NumLe(a, b) == a.t = "number" /\ b.t = "number" /\ a.n <= b.n

\* the cache test with the buffer subtracted twice
CacheValidTwice ==
  Truthy(cachedToken)
    /\ NumLt(Num(now), NumMinus(NumMinus(tokenExpiresAt, TokenBufferMs), TokenBufferMs))

\* the cache test with <= in place of <
CacheValidInclusive ==
  Truthy(cachedToken) /\ NumLe(Num(now), NumMinus(tokenExpiresAt, TokenBufferMs))


\* the cache test without the buffer
CacheValidNoBuffer == Truthy(cachedToken) /\ NumLt(Num(now), tokenExpiresAt)

\* line 21: is the cached token returned without a token exchange
CacheValid ==
  Truthy(cachedToken) /\ NumLt(Num(now), NumMinus(tokenExpiresAt, TokenBufferMs))

\* lines 25-36: the token exchange request (the credentials stand for their base64 form)
TokenRequest(cfg) ==
  [method |-> "POST", url |-> TOKEN_URL,
   authorization |-> "Basic " \o cfg.clientId \o ":" \o cfg.clientSecret,
   body |-> Str("grant_type=client_credentials")]

ConfigErrorMessage ==
  "Greenhouse client not configured. Set GREENHOUSE_CLIENT_ID and GREENHOUSE_CLIENT_SECRET."

\* the token error without the response body
TokenErrorMessageNoBody(res) ==
  "Failed to obtain access token: " \o ToString(res.status) \o " " \o res.statusText

TokenErrorMessage(res) ==
  "Failed to obtain access token: " \o ToString(res.status) \o " " \o res.statusText
    \o " - " \o res.text

ApiErrorMessage(res) ==
  "Greenhouse API error: " \o ToString(res.status) \o " " \o res.statusText
    \o " - " \o res.text

(***************************************************************************)
(* client.ts: the synchronous head of apiGet, apiGetWithCursor and apiPost *)
(* (getConfig, then getAccessToken up to its fetch).                       *)
(***************************************************************************)

\* a head that looks at the configuration only after the token has been obtained
BeginCallTokenFirst(c, tool, targs, op, path, params, cursor, perPage, body) ==
  /\ calls[c].pc \in {"idle", "done"}
  /\ LET fresh == [IdleCall EXCEPT !.tool = tool, !.targs = targs, !.op = op, !.path = path,
                     !.params = params, !.cursor = cursor, !.perPage = perPage,
                     !.body = body]
     IN calls' = [calls EXCEPT ![c] =
          IF CacheValid
          THEN [fresh EXCEPT !.pc = "haveToken", !.token = cachedToken]
          ELSE [fresh EXCEPT !.pc = "awaitToken", !.nTok = 1,
                             !.req = [method |-> "POST", url |-> TOKEN_URL,
                                      authorization |-> "Basic undefined:undefined",
                                      body |-> Undefined]]]
  /\ UNCHANGED <<config, cachedToken, tokenExpiresAt, now>>

BeginCall(c, tool, targs, op, path, params, cursor, perPage, body) ==
  /\ calls[c].pc \in {"idle", "done"}
  /\ LET fresh == [IdleCall EXCEPT !.tool = tool, !.targs = targs, !.op = op, !.path = path,
                     !.params = params, !.cursor = cursor, !.perPage = perPage,
                     !.body = body]
     IN calls' = [calls EXCEPT ![c] =
          IF ~Truthy(config)
          THEN [fresh EXCEPT !.pc = "done", !.out = Thrown("Error", ConfigErrorMessage)]
          ELSE IF CacheValid
          THEN [fresh EXCEPT !.pc = "haveToken", !.token = cachedToken]
          ELSE [fresh EXCEPT !.pc = "awaitToken", !.nTok = 1, !.req = TokenRequest(config)]]
  /\ UNCHANGED <<config, cachedToken, tokenExpiresAt, now>>

\* the caller of an exported function: a tool handler with its arguments, or none of them
Direct == [tool |-> "none", targs |-> NoToolArgs]

apiGet(c, caller, path, params) ==
  BeginCall(c, caller.tool, caller.targs, "apiGet", path, params, Undefined, Undefined,
            Undefined)

apiGetWithCursor(c, caller, path, cursor, perPage) ==
  BeginCall(c, caller.tool, caller.targs, "apiGetWithCursor", path, Undefined, cursor,
            perPage, Undefined)

apiPost(c, caller, path, body) ==
  BeginCall(c, caller.tool, caller.targs, "apiPost", path, Undefined, Undefined, Undefined,
            body)



\* a refresh that asks again when the token endpoint answers with an error status
getAccessTokenResumesRetries(c) ==
  LET res == calls[c].inbox
  IN /\ calls[c].pc = "tokenReady"
     /\ IF res.kind = "reject"
        THEN /\ calls' = [calls EXCEPT ![c].pc = "done",
                            ![c].out = Thrown("TypeError", "fetch failed")]
             /\ UNCHANGED <<cachedToken, tokenExpiresAt>>
        ELSE IF ~ResOk(res.status)
        THEN /\ calls' = [calls EXCEPT ![c].pc = "awaitToken", ![c].inbox = NoResponse,
                            ![c].nTok = IF @ < 3 THEN @ + 1 ELSE @,
                            ![c].req = TokenRequest(config)]
             /\ UNCHANGED <<cachedToken, tokenExpiresAt>>
        ELSE IF res.json = JsonSyntaxError
        THEN /\ calls' = [calls EXCEPT ![c].pc = "done",
                            ![c].out = Thrown("SyntaxError", "Unexpected token")]
             /\ UNCHANGED <<cachedToken, tokenExpiresAt>>
        ELSE /\ cachedToken' = res.json.access_token
             /\ tokenExpiresAt' = DateGetTime(res.json.expires_at)
             /\ calls' = [calls EXCEPT ![c].pc = "haveToken", ![c].inbox = NoResponse,
                            ![c].token = cachedToken']
     /\ UNCHANGED <<config, now>>

\* a refresh that keeps the cached token when it expires later than the new one
getAccessTokenResumesKeepLatest(c) ==
  LET res == calls[c].inbox
  IN /\ calls[c].pc = "tokenReady"
     /\ IF res.kind = "reject"
        THEN /\ calls' = [calls EXCEPT ![c].pc = "done",
                            ![c].out = Thrown("TypeError", "fetch failed")]
             /\ UNCHANGED <<cachedToken, tokenExpiresAt>>
        ELSE IF ~ResOk(res.status)
        THEN /\ calls' = [calls EXCEPT ![c].pc = "done",
                            ![c].out = Thrown("Error", TokenErrorMessage(res))]
             /\ UNCHANGED <<cachedToken, tokenExpiresAt>>
        ELSE IF res.json = JsonSyntaxError
        THEN /\ calls' = [calls EXCEPT ![c].pc = "done",
                            ![c].out = Thrown("SyntaxError", "Unexpected token")]
             /\ UNCHANGED <<cachedToken, tokenExpiresAt>>
        ELSE /\ IF NumLt(DateGetTime(res.json.expires_at), tokenExpiresAt)
                THEN UNCHANGED <<cachedToken, tokenExpiresAt>>
                ELSE /\ cachedToken' = res.json.access_token
                     /\ tokenExpiresAt' = DateGetTime(res.json.expires_at)
             /\ calls' = [calls EXCEPT ![c].pc = "haveToken", ![c].inbox = NoResponse,
                            ![c].token = res.json.access_token]
     /\ UNCHANGED <<config, now>>

\* auth.ts lines 38-49, and the await of client.ts line 60, 98 or 135
getAccessTokenResumes(c) ==
  LET res == calls[c].inbox
  IN /\ calls[c].pc = "tokenReady"
     /\ IF res.kind = "reject"
        THEN /\ calls' = [calls EXCEPT ![c].pc = "done",
                            ![c].out = Thrown("TypeError", "fetch failed")]
             /\ UNCHANGED <<cachedToken, tokenExpiresAt>>
        ELSE IF ~ResOk(res.status)
        THEN /\ calls' = [calls EXCEPT ![c].pc = "done",
                            ![c].out = Thrown("Error", TokenErrorMessage(res))]
             /\ UNCHANGED <<cachedToken, tokenExpiresAt>>
        ELSE IF res.json = JsonSyntaxError
        THEN /\ calls' = [calls EXCEPT ![c].pc = "done",
                            ![c].out = Thrown("SyntaxError", "Unexpected token")]
             /\ UNCHANGED <<cachedToken, tokenExpiresAt>>
        ELSE /\ cachedToken' = res.json.access_token
             /\ tokenExpiresAt' = DateGetTime(res.json.expires_at)
             /\ calls' = [calls EXCEPT ![c].pc = "haveToken", ![c].inbox = NoResponse,
                            ![c].token = cachedToken']
     /\ UNCHANGED <<config, now>>

(***************************************************************************)
(* client.ts: the resource request and its response.                       *)
(***************************************************************************)
\* JSON.stringify of one scalar
JsonScalar(v) == IF v.t = "string" THEN "\"" \o v.s \o "\"" ELSE String(v)

RECURSIVE JsonMembers(_)
JsonMembers(entries) ==
  IF Len(entries) = 0 THEN ""
  ELSE "\"" \o entries[1][1] \o "\":" \o JsonScalar(entries[1][2])
         \o (IF Len(entries) = 1 THEN "" ELSE "," \o JsonMembers(Tail(entries)))

\* JSON.stringify of a flat object: undefined members are left out
JsonStringify(obj) ==
  "{" \o JsonMembers(SelectSeq(obj.entries, LAMBDA e : e[2] # Undefined)) \o "}"

Bearer(token) == "Bearer " \o String(token)

\* the URL of a cursor request that also forwards its perPage argument
RequestUrlPerPage(call) ==
  CASE call.op = "apiGet" -> buildUrl(call.path, call.params)
    [] call.op = "apiGetWithCursor" ->
         buildUrl(call.path, Bag(<<<<"cursor", call.cursor>>, <<"per_page", call.perPage>>>>))
    [] OTHER -> BASE_URL \o call.path

\* the URL each operation requests
RequestUrl(call) ==
  CASE call.op = "apiGet" -> buildUrl(call.path, call.params)
    [] call.op = "apiGetWithCursor" ->
         UrlToString(SearchParamsSet(NewURL(BASE_URL \o call.path), "cursor",
                                     String(call.cursor)))
    [] OTHER -> BASE_URL \o call.path

\* the token read from the cache slot when the request is built
RequestTokenFromCache(c) == cachedToken

\* the token the resource request presents: the one getAccessToken returned to this call
RequestToken(c) == calls[c].token

\* getAccessToken has returned: build the URL and issue the fetch
\* (the local `token` is not read again, the model forgets it)
sendRequest(c) ==
  /\ calls[c].pc = "haveToken"
  /\ calls' = [calls EXCEPT ![c].pc = "awaitRes", ![c].nRes = @ + 1,
                 ![c].token = Undefined, ![c].req =
       [method |-> IF calls[c].op = "apiPost" THEN "POST" ELSE "GET",
        url |-> RequestUrl(calls[c]),
        authorization |-> Bearer(RequestToken(c)),
        body |-> IF calls[c].op = "apiPost" /\ Truthy(calls[c].body)
                 THEN Str(JsonStringify(calls[c].body)) ELSE Undefined]]
  /\ UNCHANGED <<config, cachedToken, tokenExpiresAt, now>>

EmptyObject == [t |-> "object", entries |-> <<>>]


\* a POST that reads the link header like a GET does
OkOutcomePostCursor(op, res) ==
  IF op = "apiPost" /\ res.status = 204 THEN Envelope(EmptyObject, Null)
  ELSE IF res.json = JsonSyntaxError THEN Thrown("SyntaxError", "Unexpected token")
  ELSE IF NextUrlThrows(res.link) THEN Thrown("TypeError", "Invalid URL")
  ELSE Envelope(res.json, NextCursorOf(res.link))

\* what the operation makes of an ok response
OkOutcome(op, res) ==
  IF op = "apiPost" /\ res.status = 204 THEN Envelope(EmptyObject, Null)
  ELSE IF res.json = JsonSyntaxError THEN Thrown("SyntaxError", "Unexpected token")
  ELSE IF op = "apiPost" THEN Envelope(res.json, Null)
  ELSE IF NextUrlThrows(res.link) THEN Thrown("TypeError", "Invalid URL")
  ELSE Envelope(res.json, NextCursorOf(res.link))

\* how many res.json() calls the operation makes on the response
JsonCalls(op, res) ==
  IF res.kind = "reject" \/ ~ResOk(res.status) \/ (op = "apiPost" /\ res.status = 204)
  THEN 0 ELSE 1



(***************************************************************************)
(* index.ts: formatResult, which every tool handler returns once the       *)
(* function it awaits has returned an envelope.                            *)
(***************************************************************************)
\* JSON.stringify(v, null, 2) of a decoded body (an array stands for its items) or a scalar
JsonPretty(v) ==
  CASE v.t = "array" -> "[ " \o v.items \o " ]"
    [] v.t = "object" -> (IF Len(v.entries) = 0 THEN "{}" ELSE JsonStringify(v))
    [] OTHER -> JsonScalar(v)

PaginationNote == "Pass next_cursor value as the 'cursor' parameter to fetch the next page."

\* a formatter that writes next_cursor whatever the envelope holds
formatResultAlways(response) ==
  [content |-> <<[type |-> "text",
                  text |-> "{\n  \"data\": " \o JsonPretty(response.data)
                             \o ",\n  \"next_cursor\": " \o JsonScalar(response.nextCursor)
                             \o ",\n  \"_pagination_note\": \"" \o PaginationNote \o "\""
                             \o "\n}"]>>]

formatResult(response) ==
  [content |-> <<[type |-> "text",
                  text |-> "{\n  \"data\": " \o JsonPretty(response.data)
                    \o (IF Truthy(response.nextCursor)
                        THEN ",\n  \"next_cursor\": " \o JsonScalar(response.nextCursor)
                               \o ",\n  \"_pagination_note\": \"" \o PaginationNote \o "\""
                        ELSE "")
                    \o "\n}"]>>]

\* what a tool handler returns: nothing when the function it awaited threw
ToolResult(tool, out) ==
  IF tool # "none" /\ out.kind = "envelope" THEN formatResult(out) ELSE NoResult

\* a GET that fetches the next page itself when the response names one
resourceResumesFollowsNext(c) ==
  LET res == calls[c].inbox
      out == IF res.kind = "reject" THEN Thrown("TypeError", "fetch failed")
             ELSE IF ~ResOk(res.status) THEN Thrown("Error", ApiErrorMessage(res))
             ELSE OkOutcome(calls[c].op, res)
  IN /\ calls[c].pc = "resReady"
     /\ IF out.kind = "envelope" /\ out.nextCursor # Null /\ calls[c].nRes < 3
        THEN calls' = [calls EXCEPT ![c].pc = "awaitRes", ![c].nRes = @ + 1,
                         ![c].nJson = @ + 1, ![c].cursor = out.nextCursor,
                         ![c].inbox = NoResponse,
                         ![c].req = [method |-> "GET",
                                     url |-> buildUrl(calls[c].path,
                                               Bag(<<<<"cursor", out.nextCursor>>>>)),
                                     authorization |-> Bearer(cachedToken),
                                     body |-> Undefined]]
        ELSE calls' = [calls EXCEPT ![c].pc = "done",
                         ![c].nJson = @ + JsonCalls(calls[c].op, res),
                         ![c].out = out,
                         ![c].result = ToolResult(calls[c].tool, out)]
     /\ UNCHANGED <<config, cachedToken, tokenExpiresAt, now>>

\* the rest of the operation once the resource fetch has settled
resourceResumes(c) ==
  LET res == calls[c].inbox
      out == IF res.kind = "reject" THEN Thrown("TypeError", "fetch failed")
             ELSE IF ~ResOk(res.status) THEN Thrown("Error", ApiErrorMessage(res))
             ELSE OkOutcome(calls[c].op, res)
  IN /\ calls[c].pc = "resReady"
     /\ calls' = [calls EXCEPT ![c].pc = "done",
                    ![c].nJson = @ + JsonCalls(calls[c].op, res),
                    ![c].out = out,
                    ![c].result = ToolResult(calls[c].tool, out)]
     /\ UNCHANGED <<config, cachedToken, tokenExpiresAt, now>>

(***************************************************************************)
(* index.ts: the tool handlers.                                            *)
(***************************************************************************)
\* the routing that adds the cursor to the filters
listEndpointMerged(c, caller, path, params, cursor) ==
  IF Truthy(cursor)
  THEN apiGet(c, caller, path, Bag(Append(params.entries, <<"cursor", cursor>>)))
  ELSE apiGet(c, caller, path, params)

listEndpoint(c, caller, path, params, cursor) ==
  IF Truthy(cursor)
  THEN apiGetWithCursor(c, caller, path, cursor, Undefined)
  ELSE apiGet(c, caller, path, params)

\* a list tool: const { cursor, ...rest } = params
listTool(c, path, rest, cursor) ==
  /\ Truthy(config)
  /\ listEndpoint(c, [tool |-> "list", targs |-> [cursor |-> cursor, rest |-> rest]],
                  path, rest, cursor)

\* get_application, get_candidate, get_job
getTool(c, prefix, id) ==
  /\ Truthy(config)
  /\ apiGet(c, [tool |-> "get", targs |-> NoToolArgs], prefix \o "/" \o String(Num(id)),
            Undefined)

\* reject_application
rejectTool(c, id, body) ==
  /\ Truthy(config)
  /\ apiPost(c, [tool |-> "reject", targs |-> NoToolArgs],
             "/applications/" \o String(Num(id)) \o "/reject", body)

(***************************************************************************)
(* Spec: the protocol, with concurrent calls of the exported functions.    *)
(***************************************************************************)
JsonPage == [t |-> "array", items |-> "page"]

LinkNext == Str("<https://harvest.greenhouse.io/v3/jobs?cursor=abc123>; rel=\"next\"")

ResourceResponses ==
  {FetchRejected,
   HttpResponse(200, "OK", "[...]", JsonPage, Null),
   HttpResponse(200, "OK", "[...]", JsonPage, LinkNext),
   HttpResponse(200, "OK", "<html>", JsonSyntaxError, Null),
   HttpResponse(204, "No Content", "", JsonSyntaxError, LinkNext),
   HttpResponse(404, "Not Found", "not found", JsonSyntaxError, Null),
   HttpResponse(304, "Not Modified", "", JsonSyntaxError, Null),
   HttpResponse(401, "Unauthorized", "{\"message\":\"expired\"}",
                [t |-> "object", message |-> Str("expired")], LinkNext)}

SomeFilters == Bag(<<<<"per_page", Num(50)>>, <<"status", Str("")>>, <<"ids", Undefined>>>>)
SomeCursor == Str("abc123")
SomeBody == Bag(<<<<"rejection_reason_id", Num(678)>>, <<"notes", Undefined>>>>)

Next ==
  \/ Tick
  \/ configure("id", "secret")
  \/ \E c \in Calls : apiGet(c, Direct, "/jobs", SomeFilters)
  \/ \E c \in Calls : apiGetWithCursor(c, Direct, "/jobs", SomeCursor, Undefined)
  \/ \E c \in Calls : apiPost(c, Direct, "/applications/7/reject", SomeBody)
  \/ \E c \in Calls, res \in TokenResponses : tokenFetchSettles(c, res)
  \/ \E c \in Calls : getAccessTokenResumes(c)
  \/ \E c \in Calls : sendRequest(c)
  \/ \E c \in Calls, res \in ResourceResponses : resourceFetchSettles(c, res)
  \/ \E c \in Calls : resourceResumes(c)

Spec == Init /\ [][Next]_vars

(***************************************************************************)
(* Properties of the token cache test (auth.ts line 21).                   *)
(***************************************************************************)
\* slot c starts a new call in this step
Started(c) == calls[c].pc \in {"idle", "done"} /\ calls'[c] # calls[c]

\* the cache slot holds a token: neither absent nor empty
HoldsToken == cachedToken \notin {Null, Undefined, Str("")}

\* milliseconds from now to the recorded expiry (for a numeric expiry)
ExpiresIn == tokenExpiresAt.n - now

\* C1 (token reuse): a call started while the cache holds a token whose recorded
\* expiry is more than 60 seconds after the current time issues no token exchange
\* (no request at all in that step) and getAccessToken returns the cached value.
TokenReuse ==
  [][\A c \in Calls :
       (Started(c) /\ Truthy(config) /\ HoldsToken /\ tokenExpiresAt.t = "number"
          /\ ExpiresIn > 60000)
       => /\ calls'[c].nTok = 0
          /\ calls'[c].req = NoRequest
          /\ calls'[c].pc = "haveToken"
          /\ calls'[c].token = cachedToken]_vars

\* a call holds a token it took from the cache 1 ms before the buffer would refuse it
TokenReuseWitness ==
  \E c \in Calls :
    /\ calls[c].pc = "haveToken" /\ calls[c].nTok = 0
    /\ calls[c].token = cachedToken
    /\ tokenExpiresAt = Num(now + 60001)

\* C2 (token refresh boundary): a call started while the cached token's recorded
\* expiry is 60 seconds or less after the current time (or already past), or while
\* the cache is empty, issues one token exchange, and no step of the call issues
\* another one.
TokenRefreshBoundary ==
  [][\A c \in Calls :
       /\ (Started(c) /\ Truthy(config)
             /\ (~HoldsToken \/ (tokenExpiresAt.t = "number" /\ ExpiresIn <= 60000)))
          => /\ calls'[c].nTok = 1
             /\ calls'[c].pc = "awaitToken"
             /\ calls'[c].req.method = "POST" /\ calls'[c].req.url = TOKEN_URL
       /\ (~Started(c)) => calls'[c].nTok = calls[c].nTok]_vars

\* a call is exchanging although the cache holds a token that expires in exactly 60 s
TokenRefreshBoundaryWitness ==
  \E c \in Calls :
    /\ calls[c].pc = "awaitToken" /\ calls[c].nTok = 1
    /\ HoldsToken /\ tokenExpiresAt = Num(now + 60000)

(***************************************************************************)
(* Properties of the request engine's protocol.                            *)
(***************************************************************************)
IsTokenResponse(res) == res.kind = "http" /\ res.url = TOKEN_URL
IsResourceResponse(res) == res.kind = "http" /\ res.url # TOKEN_URL
Non2xx(res) == res.status < 200 \/ res.status > 299

\* the token exchange of the call in tokenReady has failed
ExchangeFailed(res) ==
  res.kind = "reject" \/ (res.kind = "http" /\ (Non2xx(res) \/ res.json = JsonSyntaxError))

\* C3 (authorization ordering): a resource request is issued only by a call to which
\* getAccessToken has returned, it carries exactly the token returned to that call,
\* and a call whose token exchange failed ends with an error in its next step,
\* without ever issuing a resource request.
AuthorizationOrdering ==
  [][\A c \in Calls :
       /\ (calls'[c].nRes # calls[c].nRes /\ ~Started(c))
          => /\ calls[c].pc = "haveToken"
             /\ calls'[c].nRes = 1
             /\ calls'[c].req.method \in {"GET", "POST"}
             /\ calls'[c].req.authorization = "Bearer " \o String(calls[c].token)
       /\ Started(c) => calls'[c].nRes = 0
       /\ (calls[c].pc = "tokenReady" /\ ExchangeFailed(calls[c].inbox)
             /\ calls'[c] # calls[c])
          => /\ calls'[c].pc = "done"
             /\ calls'[c].out.kind = "error"
             /\ calls'[c].nRes = 0
             /\ calls'[c].req = NoRequest]_vars

\* one call's request is in flight with its own token after another call's exchange
\* replaced the cached one, and the other call's next exchange has failed
AuthorizationOrderingWitness ==
  \E c, d \in Calls :
    /\ calls[c].pc = "awaitRes"
    /\ calls[c].req.authorization # "Bearer " \o String(cachedToken)
    /\ calls[d].pc = "done" /\ calls[d].nTok = 1 /\ calls[d].nRes = 0
    /\ calls[d].out.kind = "error"

\* C6 (resource errors, no retry): a call that received a non-2xx resource response
\* ends with an error whose message embeds the status code, the status text and the
\* raw body text, without any res.json() call and after exactly one resource request.
ResourceErrorNoRetry ==
  \A c \in Calls :
    /\ calls[c].nRes <= 1
    /\ (calls[c].pc = "done" /\ IsResourceResponse(calls[c].inbox) /\ Non2xx(calls[c].inbox))
       => /\ calls[c].out.kind = "error"
          /\ Contains(calls[c].out.message, ToString(calls[c].inbox.status))
          /\ Contains(calls[c].out.message, calls[c].inbox.statusText)
          /\ Contains(calls[c].out.message, calls[c].inbox.text)
          /\ calls[c].nJson = 0
          /\ calls[c].nRes = 1
          /\ calls[c].req = NoRequest

\* the 404 of the specification's example
ResourceErrorNoRetryWitness ==
  \E c \in Calls :
    /\ calls[c].pc = "done" /\ calls[c].nRes = 1 /\ calls[c].nJson = 0
    /\ calls[c].inbox.kind = "http" /\ calls[c].inbox.status = 404
    /\ calls[c].out = Thrown("Error", "Greenhouse API error: 404 Not Found - not found")

\* C7 (token exchange failure): a call whose token exchange got a non-2xx answer ends
\* with an error carrying the status, the status text and the body verbatim, after
\* exactly one exchange and without a resource request.
TokenExchangeFailure ==
  \A c \in Calls :
    /\ calls[c].nTok <= 1
    /\ (calls[c].pc = "done" /\ IsTokenResponse(calls[c].inbox) /\ Non2xx(calls[c].inbox))
       => /\ calls[c].out.kind = "error"
          /\ Contains(calls[c].out.message, ToString(calls[c].inbox.status))
          /\ Contains(calls[c].out.message, calls[c].inbox.statusText)
          /\ Contains(calls[c].out.message, calls[c].inbox.text)
          /\ calls[c].nTok = 1
          /\ calls[c].nRes = 0
          /\ calls[c].req = NoRequest

\* an apiPost ended with the 401 of the token endpoint
TokenExchangeFailureWitness ==
  \E c \in Calls :
    /\ calls[c].pc = "done" /\ calls[c].op = "apiPost" /\ calls[c].nTok = 1
    /\ calls[c].inbox.kind = "http" /\ calls[c].inbox.url = TOKEN_URL
    /\ calls[c].out.kind = "error"
    /\ Contains(calls[c].out.message, "401 Unauthorized - {\"error\":\"invalid_client\"}")

\* is the decoded body a token response: access_token a string, expires_at a
\* timestamp that parses
WellFormedTokenBody(json) ==
  /\ json.access_token.t = "string"
  /\ json.expires_at.t = "string"
  /\ DateParse(json.expires_at.s) # NaN

\* C8 (malformed token response): a call that handles a 2xx token response whose body
\* is a JSON object without a string access_token or without a parseable expires_at
\* fails with an error, returns no token and leaves the cache as it was.
MalformedTokenResponse ==
  [][\A c \in Calls :
       (/\ calls[c].pc = "tokenReady" /\ calls[c].inbox.kind = "http"
        /\ ~Non2xx(calls[c].inbox) /\ calls[c].inbox.json # JsonSyntaxError
        /\ ~WellFormedTokenBody(calls[c].inbox.json)
        /\ calls'[c] # calls[c])
       => /\ calls'[c].pc = "done"
          /\ calls'[c].out.kind = "error"
          /\ cachedToken' = cachedToken
          /\ tokenExpiresAt' = tokenExpiresAt]_vars

(***************************************************************************)
(* SpecUrl: one call at a time, with every filter bag and cursor, to look  *)
(* at the URLs requested.                                                  *)
(***************************************************************************)
FilterKeys == <<"a", "b", "c", "d", "e">>
FilterValues ==
  {Undefined, Str(""), Str("x"), Num(0), Num(5), Bool(FALSE), Str("gte|2024-01-01T00:00:00Z")}

\* the filter bag of the specification's example
ExampleBag ==
  Bag(<<<<"a", Undefined>>, <<"b", Str("")>>, <<"c", Str("x")>>, <<"d", Num(5)>>,
        <<"e", Bool(FALSE)>>>>)

UrlBags ==
  {Bag([i \in 1 .. MaxKeys |-> <<FilterKeys[i], f[i]>>]) : f \in [1 .. MaxKeys -> FilterValues]}
    \cup {ExampleBag, Bag(<<>>)}

\* list tools receive the same bags, thinned out
ListRests ==
  {Bag([i \in 1 .. MaxKeys |-> <<FilterKeys[i], f[i]>>]) :
     f \in [1 .. MaxKeys -> {Undefined, Str(""), Num(5)}]}

UrlCursors == {Str("abc123"), Str("a|b&per_page=5")}

UrlTokenResponse == HttpResponse(200, "OK", "{...}", GoodToken(MaxClock * TokenBufferMs + 1), Null)
UrlResourceResponse == HttpResponse(200, "OK", "[...]", JsonPage, Null)

NextUrl ==
  \/ configure("id", "secret")
  \/ \E params \in UrlBags \cup {Undefined} : apiGet(1, Direct, "/jobs", params)
  \/ \E cursor \in UrlCursors \cup {Str("")}, perPage \in {Undefined, Num(50)} :
       apiGetWithCursor(1, Direct, "/jobs", cursor, perPage)
  \/ \E rest \in ListRests, cursor \in UrlCursors \cup {Undefined, Str("")} :
       listTool(1, "/applications", rest, cursor)
  \/ getTool(1, "/jobs", 7)
  \/ rejectTool(1, 7, SomeBody)
  \/ tokenFetchSettles(1, UrlTokenResponse)
  \/ getAccessTokenResumes(1)
  \/ sendRequest(1)
  \/ resourceFetchSettles(1, UrlResourceResponse)
  \/ resourceResumes(1)

SpecUrl == Init /\ [][NextUrl]_vars

\* the query pairs of the resource request in flight, as the server decodes them
SentQuery(c) == ParseQuery(QueryOf(calls[c].req.url))
HasKey(q, key) == \E i \in 1 .. Len(q) : q[i][1] = key
ResourceRequestInFlight(c) == calls[c].pc = "awaitRes"

\* C4 (cursor exclusivity): the request of every apiGetWithCursor call has exactly one
\* query parameter, named cursor, whose value is the cursor supplied, whatever perPage
\* was passed.
CursorExclusivity ==
  \A c \in Calls :
    (ResourceRequestInFlight(c) /\ calls[c].op = "apiGetWithCursor")
    => SentQuery(c) = <<<<"cursor", calls[c].cursor.s>>>>

\* a direct call with a perPage argument and a cursor that contains "&per_page=5"
CursorExclusivityWitness ==
  \E c \in Calls :
    /\ ResourceRequestInFlight(c) /\ calls[c].op = "apiGetWithCursor"
    /\ calls[c].tool = "none"
    /\ calls[c].perPage = Num(50)
    /\ calls[c].cursor = Str("a|b&per_page=5")
    /\ QueryOf(calls[c].req.url) = "cursor=a%7Cb%26per_page%3D5"

\* the tool caller supplied a cursor (the empty string is none, index.ts line 94)
CursorSupplied(c) == calls[c].targs.cursor \notin {Undefined, Str("")}

\* C5 (routing rule): a list tool call goes to apiGetWithCursor when a cursor was
\* supplied and to apiGet with the remaining parameters otherwise, and no resource
\* request has a cursor parameter together with any other parameter.
RoutingRule ==
  \A c \in Calls :
    ResourceRequestInFlight(c)
    => /\ HasKey(SentQuery(c), "cursor") => Len(SentQuery(c)) = 1
       /\ (calls[c].tool = "list" /\ CursorSupplied(c))
          => /\ calls[c].op = "apiGetWithCursor"
             /\ SentQuery(c) = <<<<"cursor", calls[c].targs.cursor.s>>>>
       /\ (calls[c].tool = "list" /\ ~CursorSupplied(c))
          => /\ calls[c].op = "apiGet"
             /\ calls[c].params = calls[c].targs.rest
             /\ ~HasKey(SentQuery(c), "cursor")

\* a list tool was given a cursor and filters that would be sent, and requests the cursor
RoutingRuleWitness ==
  \E c \in Calls :
    /\ ResourceRequestInFlight(c) /\ calls[c].tool = "list" /\ CursorSupplied(c)
    /\ \E i \in 1 .. Len(calls[c].targs.rest.entries) :
         calls[c].targs.rest.entries[i][2] = Num(5)
    /\ calls[c].req.url = "https://harvest.greenhouse.io/v3/applications?cursor=abc123"

\* how a filter value reads in a query string
Shown(v) ==
  CASE v = Num(0) -> "0"
    [] v = Num(5) -> "5"
    [] v = Num(50) -> "50"
    [] v = Bool(FALSE) -> "false"
    [] v = Bool(TRUE) -> "true"
    [] OTHER -> v.s

\* C10 (filter omission): the request of every apiGet call has exactly one query
\* parameter for each entry of the bag whose value is neither undefined nor "", with
\* the value as a string (0 and false kept), and no parameter for the other entries.
FilterOmission ==
  \A c \in Calls :
    (ResourceRequestInFlight(c) /\ calls[c].op = "apiGet" /\ calls[c].params # Undefined)
    => LET q == SentQuery(c)
           es == calls[c].params.entries
           kept == {i \in 1 .. Len(es) : es[i][2] \notin {Undefined, Str("")}}
       IN /\ \A i \in kept :
               Cardinality({j \in 1 .. Len(q) : q[j][1] = es[i][1]}) = 1
                 /\ \E j \in 1 .. Len(q) : q[j] = <<es[i][1], Shown(es[i][2])>>
          /\ \A i \in (1 .. Len(es)) \ kept : ~HasKey(q, es[i][1])
          /\ Len(q) = Cardinality(kept)
          /\ calls[c].params = ExampleBag => QueryOf(calls[c].req.url) = "c=x&d=5&e=false"

\* the bag of the specification's example is on its way as c=x&d=5&e=false
FilterOmissionWitness ==
  \E c \in Calls :
    /\ ResourceRequestInFlight(c) /\ calls[c].op = "apiGet"
    /\ calls[c].params = ExampleBag
    /\ calls[c].req.url = "https://harvest.greenhouse.io/v3/jobs?c=x&d=5&e=false"

(***************************************************************************)
(* SpecLink: one GET at a time, direct or from a list tool, answered with  *)
(* every link header made of up to MaxLinks relations.                     *)
(***************************************************************************)
LinkUrls ==
  {"https://harvest.greenhouse.io/v3/jobs?cursor=abc123",
   "https://harvest.greenhouse.io/v3/jobs?per_page=5&cursor=a%7Cb",
   "https://harvest.greenhouse.io/v3/jobs?page=2",
   "https://harvest.greenhouse.io/v3/jobs?cursor=",
   "/v3/jobs?cursor=rel"}
LinkRels == {"next", "prev", "last"}

\* one relation of a link header, with or without a space before its rel parameter
LinkEntry(url, gap, rel) == "<" \o url \o ">;" \o gap \o "rel=\"" \o rel \o "\""
LinkEntries == {LinkEntry(u, g, r) : u \in LinkUrls, g \in {"", " "}, r \in LinkRels}

RECURSIVE LinkLists(_)
LinkLists(n) ==
  IF n = 1 THEN LinkEntries
  ELSE LinkLists(n - 1) \cup {h \o ", " \o e : h \in LinkLists(n - 1), e \in LinkEntries}

LinkHeaders == {Null, Str("")} \cup {Str(h) : h \in LinkLists(MaxLinks)}

NextLink ==
  \/ configure("id", "secret")
  \/ apiGet(1, Direct, "/jobs", Undefined)
  \/ apiGetWithCursor(1, Direct, "/jobs", SomeCursor, Undefined)
  \/ \E cursor \in {Undefined, SomeCursor} : listTool(1, "/jobs", SomeFilters, cursor)
  \/ tokenFetchSettles(1, UrlTokenResponse)
  \/ getAccessTokenResumes(1)
  \/ sendRequest(1)
  \/ \E link \in LinkHeaders :
       resourceFetchSettles(1, HttpResponse(200, "OK", "[...]", JsonPage, link))
  \/ resourceResumes(1)

SpecLink == Init /\ [][NextLink]_vars

\* s without the spaces at its ends
RECURSIVE Trim(_)
Trim(s) ==
  IF Len(s) > 0 /\ CharAt(s, 1) = " " THEN Trim(SubSeq(s, 2, Len(s)))
  ELSE IF Len(s) > 0 /\ CharAt(s, Len(s)) = " " THEN Trim(SubSeq(s, 1, Len(s) - 1))
  ELSE s

\* a link header read relation by relation: the targets whose parameters include rel="next"
NextTargets(header) ==
  LET items == Split(header, ",")
      parts(i) == Split(items[i], ";")
      tagged(i) == \E k \in 2 .. Len(parts(i)) : Trim(parts(i)[k]) = "rel=\"next\""
      target(i) == LET t == Trim(parts(i)[1]) IN SubSeq(t, 2, Len(t) - 1)
  IN [i \in {k \in 1 .. Len(items) : tagged(k)} |-> target(i)]

\* the value of the cursor parameter of a URL, null without one
CursorOfUrl(url) ==
  LET q == ParseQuery(QueryOf(url))
      cs == {i \in 1 .. Len(q) : q[i][1] = "cursor"}
  IN IF cs = {} THEN Null ELSE Str(q[CHOOSE i \in cs : \A j \in cs : i <= j][2])

\* C9 (next-cursor extraction): the envelope of a successful GET has nextCursor null
\* when the response has no link header or one without a next relation, and has the
\* cursor parameter of the next relation's URL when the header tags one URL as next,
\* wherever it stands in the header.
NextCursorExtraction ==
  \A c \in Calls :
    (/\ calls[c].pc = "done" /\ calls[c].out.kind = "envelope"
     /\ calls[c].op \in {"apiGet", "apiGetWithCursor"})
    => LET link == calls[c].inbox.link
           nexts == IF link = Null THEN <<>> ELSE NextTargets(link.s)
       IN /\ DOMAIN nexts = {} => calls[c].out.nextCursor = Null
          /\ Cardinality(DOMAIN nexts) = 1
             => \A i \in DOMAIN nexts : calls[c].out.nextCursor = CursorOfUrl(nexts[i])

\* a prev relation precedes the next one, whose URL has another parameter before cursor
NextCursorExtractionWitness ==
  \E c \in Calls :
    /\ calls[c].pc = "done" /\ calls[c].out.kind = "envelope"
    /\ calls[c].inbox.link =
         Str("<https://harvest.greenhouse.io/v3/jobs?cursor=abc123>; rel=\"prev\", "
               \o "<https://harvest.greenhouse.io/v3/jobs?per_page=5&cursor=a%7Cb>;rel=\"next\"")
    /\ calls[c].out.nextCursor = Str("a|b")

(***************************************************************************)
(* Writes, the configuration precondition and single pages (Spec).         *)
(***************************************************************************)
HasNextRelation(res) == res.link # Null /\ NextCursorOf(res.link) # Null

\* C11 (204 handling and unpaginated writes): an apiPost that has handled a response
\* of status 204 ends with the envelope {data: {}, nextCursor: null} and has made no
\* res.json() call, and every envelope an apiPost ends with has nextCursor = null and
\* (but for the 204 case) the decoded body as data, whatever the link header says.
UnpaginatedWrites ==
  \A c \in Calls :
    (calls[c].pc = "done" /\ calls[c].op = "apiPost") =>
      /\ (IsResourceResponse(calls[c].inbox) /\ calls[c].inbox.status = 204) =>
           /\ calls[c].out = [kind |-> "envelope", data |-> EmptyObject, nextCursor |-> Null]
           /\ calls[c].nJson = 0
      /\ calls[c].out.kind = "envelope" =>
           /\ calls[c].out.nextCursor = Null
           /\ IsResourceResponse(calls[c].inbox)
           /\ calls[c].inbox.status # 204 =>
                calls[c].out.data = calls[c].inbox.json /\ calls[c].nJson = 1

UnpaginatedWritesWitness ==
  /\ \E c \in Calls :
       /\ calls[c].pc = "done" /\ calls[c].op = "apiPost"
       /\ calls[c].inbox.kind = "http" /\ calls[c].inbox.status = 204
       /\ HasNextRelation(calls[c].inbox)
       /\ calls[c].out.kind = "envelope" /\ calls[c].nJson = 0
  /\ \E c \in Calls :
       /\ calls[c].pc = "done" /\ calls[c].op = "apiPost"
       /\ calls[c].inbox.kind = "http" /\ calls[c].inbox.status = 200
       /\ HasNextRelation(calls[c].inbox)
       /\ calls[c].out.kind = "envelope" /\ calls[c].out.nextCursor = Null

Operations == {"apiGet", "apiGetWithCursor", "apiPost"}

\* C13 (configuration precondition): as long as configure has supplied no credential
\* pair, every call that has been started has ended at once with the configuration
\* error, no call has issued a token exchange or a resource request or has one in
\* flight, and the token cache is as it was at module load.
ConfigurationPrecondition ==
  config = Null =>
    /\ cachedToken = Null /\ tokenExpiresAt = Num(0)
    /\ \A c \in Calls :
         /\ calls[c].pc \in {"idle", "done"}
         /\ calls[c].nTok = 0 /\ calls[c].nRes = 0
         /\ calls[c].req = NoRequest /\ calls[c].inbox = NoResponse
         /\ calls[c].pc = "done" =>
              /\ calls[c].op \in Operations
              /\ calls[c].out = [kind |-> "error", name |-> "Error",
                                 message |-> "Greenhouse client not configured. "
                                   \o "Set GREENHOUSE_CLIENT_ID and GREENHOUSE_CLIENT_SECRET."]

ConfigurationPreconditionWitness ==
  /\ config = Null
  /\ calls[1].pc = "done" /\ calls[1].op = "apiPost" /\ calls[1].out.kind = "error"
  /\ calls[2].pc = "done" /\ calls[2].op = "apiGetWithCursor" /\ calls[2].out.kind = "error"

IsGet(call) == call.op \in {"apiGet", "apiGetWithCursor"}

\* C14 (no auto-pagination): a call never has more than one resource request to its
\* name; a GET that has ended with an envelope has issued exactly one, has none in
\* flight, and returns the page and the cursor of that one response, also when the
\* cursor is not null; and while a call waits for a page, the cursor in its request
\* is the one its caller passed (none for an apiGet).
NoAutoPagination ==
  \A c \in Calls :
    /\ calls[c].nRes <= 1
    /\ (IsGet(calls[c]) /\ calls[c].pc = "done" /\ calls[c].out.kind = "envelope") =>
         /\ calls[c].nRes = 1 /\ calls[c].nJson = 1
         /\ calls[c].req = NoRequest
         /\ calls[c].out.data = calls[c].inbox.json
         /\ calls[c].out.nextCursor = NextCursorOf(calls[c].inbox.link)
    /\ (IsGet(calls[c]) /\ calls[c].pc = "awaitRes") =>
         SearchParamsGet(NewURL(calls[c].req.url), "cursor")
           = IF calls[c].op = "apiGetWithCursor" THEN calls[c].cursor ELSE Null

NoAutoPaginationWitness ==
  \E c \in Calls :
    /\ calls[c].pc = "done" /\ calls[c].op = "apiGet"
    /\ calls[c].out.kind = "envelope" /\ calls[c].out.nextCursor = Str("abc123")
    /\ calls[c].nRes = 1

(***************************************************************************)
(* Concurrent refreshes and the cache slot (Spec).                         *)
(***************************************************************************)
\* another call has its own token exchange under way
ExchangeUnderWay(c) == \E d \in Calls \ {c} : calls[d].pc \in {"awaitToken", "tokenReady"}

\* call c takes the step in which getAccessToken stores a token response and returns
StoresToken(c) == calls[c].pc = "tokenReady" /\ calls'[c].pc = "haveToken"

\* C12 (unsynchronized concurrent refresh): a call started while the cache is empty
\* or stale issues its own token exchange also when another call's exchange is
\* under way; and each step that stores a well-formed token response sets the slot
\* to that response's token and expiry, whatever the slot held (also a token that
\* expires later), and touches no other call: the slot holds what was stored last.
ConcurrentRefresh ==
  [][\A c \in Calls :
       /\ (Started(c) /\ Truthy(config) /\ ~CacheValid /\ ExchangeUnderWay(c)) =>
            /\ calls'[c].pc = "awaitToken" /\ calls'[c].nTok = 1
            /\ calls'[c].req.method = "POST" /\ calls'[c].req.url = TOKEN_URL
       /\ StoresToken(c) =>
            /\ \A ms \in ExpiryTimes :
                 calls[c].inbox.json = GoodToken(ms) =>
                   /\ cachedToken' = Str("tok-" \o ToString(ms))
                   /\ tokenExpiresAt' = Num(ms)
            /\ \A d \in Calls \ {c} : calls'[d] = calls[d]]_vars

\* both calls exchanged concurrently (the second write happened while the first was
\* still valid), and the slot holds the later write, which expires earlier
ConcurrentRefreshWitness ==
  \E c \in Calls : \E d \in Calls \ {c} :
    /\ now = 0
    /\ calls[c].pc = "haveToken" /\ calls[c].nTok = 1
    /\ calls[c].token = Str("tok-" \o ToString(TokenBufferMs + 1))
    /\ calls[d].pc = "haveToken" /\ calls[d].nTok = 1
    /\ calls[d].token = Str("tok-" \o ToString(TokenBufferMs))
    /\ cachedToken = calls[d].token /\ tokenExpiresAt = Num(TokenBufferMs)

\* the slot pairs a token with the expiry of the response that brought it
SlotPaired ==
  \A ms \in ExpiryTimes :
    cachedToken = Str("tok-" \o ToString(ms)) => tokenExpiresAt = Num(ms)

\* C16 (successful exchange result): the step in which getAccessToken stores a token
\* response returns that response's access_token to its call and leaves the slot
\* holding the same value, with the instant its expires_at denotes as the expiry;
\* and in every state the slot's token and expiry come from the same response.
ExchangeResult ==
  [][/\ \A c \in Calls :
          StoresToken(c) =>
            /\ calls'[c].token = calls[c].inbox.json.access_token
            /\ cachedToken' = calls[c].inbox.json.access_token
            /\ \A ms \in ExpiryTimes :
                 calls[c].inbox.json.expires_at = Str(IsoString(ms)) =>
                   tokenExpiresAt' = Num(ms)
     /\ SlotPaired']_vars

\* a call holds the token of its own exchange, which is also in the slot with its
\* expiry, while the other call's exchange has brought a different token not yet stored
ExchangeResultWitness ==
  \E c \in Calls : \E d \in Calls \ {c} :
    /\ calls[c].pc = "haveToken" /\ calls[c].nTok = 1
    /\ calls[c].token = Str("tok-" \o ToString(TokenBufferMs))
    /\ cachedToken = calls[c].token /\ tokenExpiresAt = Num(TokenBufferMs)
    /\ calls[d].pc = "tokenReady" /\ calls[d].inbox.kind = "http"
    /\ calls[d].inbox.json = GoodToken(TokenBufferMs + 1)

\* C17 (cache frame condition): the slot (token and expiry) changes only in the step
\* of a call that stores a well-formed 2xx token response (every other step, a failed
\* exchange among them, leaves both fields as they were), and a slot that holds a
\* token holds one ever after.
CacheFrame ==
  [][/\ (cachedToken' # cachedToken \/ tokenExpiresAt' # tokenExpiresAt) =>
          \E c \in Calls :
            /\ StoresToken(c)
            /\ ~Non2xx(calls[c].inbox)
            /\ WellFormedTokenBody(calls[c].inbox.json)
     /\ HoldsToken => HoldsToken']_vars

\* call c takes the step in which getAccessToken returns the cached token
ReturnsCached(c) == Started(c) /\ calls'[c].pc = "haveToken"

\* C18 (expiry buffer) as stated: when getAccessToken returns the cached token the
\* current time is more than 60 seconds before the recorded expiry, and when it
\* returns the token of a well-formed response it has just stored, the current time
\* is strictly before the expiry recorded for it.
ExpiryBufferBothPaths ==
  [][\A c \in Calls :
       /\ ReturnsCached(c) =>
            tokenExpiresAt.t = "number" /\ ExpiresIn > TokenBufferMs
       /\ (StoresToken(c) /\ WellFormedTokenBody(calls[c].inbox.json)) =>
            tokenExpiresAt'.t = "number" /\ now' < tokenExpiresAt'.n]_vars

\* C18 amended: the buffer holds on the cache-hit path only: when getAccessToken
\* returns the cached token, the slot holds a token, the value returned is that
\* token, and the current time is more than 60 seconds before its recorded expiry.
ExpiryBuffer ==
  [][\A c \in Calls :
       ReturnsCached(c) =>
         /\ HoldsToken /\ calls'[c].token = cachedToken
         /\ tokenExpiresAt.t = "number" /\ ExpiresIn > TokenBufferMs]_vars

\* an apiPost has been handed the cached token, more than 60 seconds before its expiry
ExpiryBufferWitness ==
  \E c \in Calls :
    /\ calls[c].pc = "haveToken" /\ calls[c].nTok = 0 /\ calls[c].op = "apiPost"
    /\ calls[c].token = cachedToken /\ HoldsToken
    /\ tokenExpiresAt.t = "number" /\ ExpiresIn > TokenBufferMs

(***************************************************************************)
(* The cursor in a list tool's result (SpecLink).                          *)
(***************************************************************************)
\* the text a tool returned has a member of this name
HasMember(text, name) == Contains(text, "\n  \"" \o name \o "\": ")

\* C15 (cursor surfacing): the text returned by a list tool has a next_cursor member
\* exactly when the response tagged a URL as next and that URL has a non-empty cursor
\* parameter (never when the header has no next relation); the member's value is the
\* envelope's nextCursor, and without the member the envelope has no cursor to pass.
CursorSurfacing ==
  \A c \in Calls :
    (calls[c].pc = "done" /\ calls[c].tool = "list" /\ calls[c].out.kind = "envelope") =>
      LET text == calls[c].result.content[1].text
          link == calls[c].inbox.link
          nexts == IF link = Null THEN <<>> ELSE NextTargets(link.s)
      IN /\ DOMAIN nexts = {} => ~HasMember(text, "next_cursor")
         /\ Cardinality(DOMAIN nexts) = 1 =>
              \A i \in DOMAIN nexts :
                HasMember(text, "next_cursor") <=> CursorOfUrl(nexts[i]) \notin {Null, Str("")}
         /\ HasMember(text, "next_cursor") =>
              /\ calls[c].out.nextCursor.t = "string"
              /\ Contains(text, "\n  \"next_cursor\": \"" \o calls[c].out.nextCursor.s \o "\",\n")
         /\ ~HasMember(text, "next_cursor") => calls[c].out.nextCursor \in {Null, Str("")}
         /\ HasMember(text, "data")

\* a list tool called with a cursor returns the cursor of the page after it
CursorSurfacingWitness ==
  \E c \in Calls :
    /\ calls[c].pc = "done" /\ calls[c].tool = "list" /\ calls[c].op = "apiGetWithCursor"
    /\ calls[c].inbox.link =
         Str("<https://harvest.greenhouse.io/v3/jobs?page=2>; rel=\"last\", "
               \o "<https://harvest.greenhouse.io/v3/jobs?per_page=5&cursor=a%7Cb>; rel=\"next\"")
    /\ calls[c].out.nextCursor = Str("a|b")
    /\ Contains(calls[c].result.content[1].text, "\"next_cursor\": \"a|b\"")

(***************************************************************************)
(* SpecLive: two concurrent calls under the assumption that every fetch    *)
(* settles and that the event loop runs every continuation that is ready.  *)
(* Completion does not depend on what the URLs and bodies hold, so the     *)
(* calls take short arguments and the responses one of each kind.          *)
(***************************************************************************)
LiveTokenResponses ==
  {FetchRejected,
   HttpResponse(401, "Unauthorized", "{\"error\":\"invalid_client\"}",
                [t |-> "object", error |-> Str("invalid_client")], Null),
   HttpResponse(200, "OK", "<html>", JsonSyntaxError, Null),
   HttpResponse(200, "OK", "{...}", GoodToken(TokenBufferMs + 1), Null)}

LiveResourceResponses ==
  {FetchRejected,
   HttpResponse(200, "OK", "[...]", JsonPage, Null),
   HttpResponse(200, "OK", "<html>", JsonSyntaxError, Null),
   HttpResponse(204, "No Content", "", JsonSyntaxError, Null),
   HttpResponse(404, "Not Found", "not found", JsonSyntaxError, Null)}

\* the next step of call c, whichever it is: its fetch settles, or its continuation runs
Progress(c) ==
  \/ \E res \in LiveTokenResponses : tokenFetchSettles(c, res)
  \/ getAccessTokenResumes(c)
  \/ sendRequest(c)
  \/ \E res \in LiveResourceResponses : resourceFetchSettles(c, res)
  \/ resourceResumes(c)

NextLive ==
  \/ Tick
  \/ configure("id", "secret")
  \/ \E c \in Calls : apiGet(c, Direct, "/jobs", Undefined)
  \/ \E c \in Calls : apiGetWithCursor(c, Direct, "/jobs", Str("c"), Undefined)
  \/ \E c \in Calls : apiPost(c, Direct, "/jobs", Undefined)
  \/ \E c \in Calls : Progress(c)

SpecLive == Init /\ [][NextLive]_vars /\ \A c \in Calls : WF_vars(Progress(c))

Pending(c) == calls[c].pc \notin {"idle", "done"}
Completed(c) == calls[c].pc = "done" /\ calls[c].out.kind \in {"envelope", "error"}

\* C19 (completion): every call that has been started and has not returned yet
\* eventually returns, with an envelope or with an error.
Completion == \A c \in Calls : Pending(c) ~> Completed(c)

\* a call has completed with an envelope after its own exchange and its one request
\* while the other call is still waiting for its token exchange
CompletionWitness ==
  \E c \in Calls : \E d \in Calls \ {c} :
    /\ Completed(c) /\ calls[c].out.kind = "envelope"
    /\ calls[c].nTok = 1 /\ calls[c].nRes = 1
    /\ calls[d].pc = "awaitToken"

====
